---------------------------- MODULE Spec2Model ----------------------------
(***************************************************************************)
(* EZChem: the Flask backends Main_python.py (first revision, one          *)
(* endpoint) and app.py (final revision, four POST endpoints and the       *)
(* frontend route).  Each handler checks the API key, validates the JSON   *)
(* body, builds a prompt, calls the hosted model once and relays its       *)
(* answer.  Strings are TLA+ strings, JSON values are tagged records.      *)
(***************************************************************************)
EXTENDS Integers, Sequences, FiniteSets, TLC

VARIABLES API_KEY, rev, pc, route, data, calls, query, reply, resp,
          fatoms, fbonds_formula, finfo_formula

vars == <<API_KEY, rev, pc, route, data, calls, query, reply, resp,
          fatoms, fbonds_formula, finfo_formula>>

reqvars == <<pc, route, data, calls, query, reply, resp>>

fvars == <<fatoms, fbonds_formula, finfo_formula>>

-----------------------------------------------------------------------------
(* Bounds of the model.                                                    *)

\* longest 'atoms' list of a request body in Spec
MaxAtoms == 2

\* longest symbol list handed to the formula builders in SpecFormula
MaxFormulaAtoms == 5

-----------------------------------------------------------------------------
(* Python strings.                                                         *)

Ch(s, i) == SubSeq(s, i, i)

\* the digits and letters, in code-point order
Alnum == "0123456789ABCDEFGHIJKLMNOPQRSTUVWXYZabcdefghijklmnopqrstuvwxyz"

\* the rank of ord(c) among the digits and letters, for each of them
OrdTable ==
    [c \in {Ch(Alnum, k) : k \in 1..Len(Alnum)} |->
        CHOOSE k \in 1..Len(Alnum) : Ch(Alnum, k) = c]

\* the rank of ord(c) among the digits and letters (0 for any other character)
Ord(c) == IF c \in DOMAIN OrdTable THEN OrdTable[c] ELSE 0

RECURSIVE StrLessFrom(_, _, _)
StrLessFrom(a, b, i) ==
    IF i > Len(b) THEN FALSE
    ELSE IF i > Len(a) THEN TRUE
    ELSE IF Ord(Ch(a, i)) < Ord(Ch(b, i)) THEN TRUE
    ELSE IF Ord(Ch(a, i)) > Ord(Ch(b, i)) THEN FALSE
    ELSE StrLessFrom(a, b, i + 1)

\* a < b for two str objects: lexicographic by code point
StrLess(a, b) == StrLessFrom(a, b, 1)

Whitespace == {" ", "\n", "\t", "\r"}

RECURSIVE LStripFrom(_, _)
LStripFrom(s, i) ==
    IF i <= Len(s) /\ Ch(s, i) \in Whitespace THEN LStripFrom(s, i + 1) ELSE i

RECURSIVE RStripFrom(_, _)
RStripFrom(s, j) ==
    IF j >= 1 /\ Ch(s, j) \in Whitespace THEN RStripFrom(s, j - 1) ELSE j

\* str.strip()
Strip(s) == SubSeq(s, LStripFrom(s, 1), RStripFrom(s, Len(s)))

\* sub in s
Contains(s, sub) ==
    \E i \in 1..(Len(s) - Len(sub) + 1) : SubSeq(s, i, i + Len(sub) - 1) = sub

-----------------------------------------------------------------------------
(* JSON values and json.loads.                                             *)

JNull == [t |-> "null"]
JBool(b) == [t |-> "bool", v |-> b]
JInt(n) == [t |-> "int", v |-> n]
JStr(s) == [t |-> "str", v |-> s]
JArr(q) == [t |-> "arr", v |-> q]
JObj(f) == [t |-> "obj", v |-> f]

Digits == "0123456789"

IsDigit(c) == \E k \in 1..10 : Ch(Digits, k) = c

DigitVal(c) == (CHOOSE k \in 1..10 : Ch(Digits, k) = c) - 1

RECURSIVE NatOf(_, _, _, _)
NatOf(s, i, j, acc) ==
    IF i > j THEN acc ELSE NatOf(s, i + 1, j, 10 * acc + DigitVal(Ch(s, i)))

RECURSIVE ScanDigits(_, _)
ScanDigits(s, i) ==
    IF i <= Len(s) /\ IsDigit(Ch(s, i)) THEN ScanDigits(s, i + 1) ELSE i

\* index of the quote that closes a string whose text starts at i, 0 if none
RECURSIVE ScanString(_, _)
ScanString(s, i) ==
    IF i > Len(s) THEN 0
    ELSE IF Ch(s, i) = "\"" THEN i
    ELSE ScanString(s, i + 1)

JFail(m) == [ok |-> FALSE, msg |-> m]
JOk(val, next) == [ok |-> TRUE, val |-> val, next |-> next]

ParseString(s, i) ==
    LET close == ScanString(s, i + 1)
    IN IF close = 0 THEN JFail("Unterminated string starting at")
       ELSE JOk(JStr(SubSeq(s, i + 1, close - 1)), close + 1)

ParseNumber(s, i) ==
    LET neg == Ch(s, i) = "-"
        d0 == IF neg THEN i + 1 ELSE i
        d1 == IF d0 <= Len(s) /\ Ch(s, d0) = "0" THEN d0 + 1 ELSE ScanDigits(s, d0)
    IN IF d1 = d0 THEN JFail("Expecting value")
       ELSE JOk(JInt(IF neg THEN 0 - NatOf(s, d0, d1 - 1, 0)
                            ELSE NatOf(s, d0, d1 - 1, 0)), d1)

RECURSIVE ParseValue(_, _)
RECURSIVE ParseMembers(_, _, _)
RECURSIVE ParseElements(_, _, _)

\* json.decoder.JSONObject, from a property name on
ParseMembers(s, i, acc) ==
    IF i > Len(s) \/ Ch(s, i) # "\""
    THEN JFail("Expecting property name enclosed in double quotes")
    ELSE LET k == ParseString(s, i)
         IN IF ~k.ok THEN k
            ELSE LET c == LStripFrom(s, k.next)
                 IN IF c > Len(s) \/ Ch(s, c) # ":"
                    THEN JFail("Expecting ':' delimiter")
                    ELSE LET x == ParseValue(s, LStripFrom(s, c + 1))
                         IN IF ~x.ok THEN x
                            ELSE LET e == LStripFrom(s, x.next)
                                     f == (k.val.v :> x.val) @@ acc
                                 IN IF e <= Len(s) /\ Ch(s, e) = "}"
                                    THEN JOk(JObj(f), e + 1)
                                    ELSE IF e <= Len(s) /\ Ch(s, e) = ","
                                    THEN ParseMembers(s, LStripFrom(s, e + 1), f)
                                    ELSE JFail("Expecting ',' delimiter")

\* json.decoder.JSONArray, from an element on
ParseElements(s, i, acc) ==
    LET x == ParseValue(s, i)
    IN IF ~x.ok THEN x
       ELSE LET e == LStripFrom(s, x.next)
                q == Append(acc, x.val)
            IN IF e <= Len(s) /\ Ch(s, e) = "]"
               THEN JOk(JArr(q), e + 1)
               ELSE IF e <= Len(s) /\ Ch(s, e) = ","
               THEN ParseElements(s, LStripFrom(s, e + 1), q)
               ELSE JFail("Expecting ',' delimiter")

\* json.scanner: one value starting at i
ParseValue(s, i) ==
    IF i > Len(s) THEN JFail("Expecting value")
    ELSE LET c == Ch(s, i)
         IN CASE c = "\"" -> ParseString(s, i)
              [] c = "{" ->
                    LET j == LStripFrom(s, i + 1)
                    IN IF j <= Len(s) /\ Ch(s, j) = "}"
                       THEN JOk(JObj(<<>>), j + 1)
                       ELSE ParseMembers(s, j, <<>>)
              [] c = "[" ->
                    LET j == LStripFrom(s, i + 1)
                    IN IF j <= Len(s) /\ Ch(s, j) = "]"
                       THEN JOk(JArr(<<>>), j + 1)
                       ELSE ParseElements(s, j, <<>>)
              [] c = "n" /\ i + 3 <= Len(s) /\ SubSeq(s, i, i + 3) = "null" ->
                    JOk(JNull, i + 4)
              [] c = "t" /\ i + 3 <= Len(s) /\ SubSeq(s, i, i + 3) = "true" ->
                    JOk(JBool(TRUE), i + 4)
              [] c = "f" /\ i + 4 <= Len(s) /\ SubSeq(s, i, i + 4) = "false" ->
                    JOk(JBool(FALSE), i + 5)
              [] c = "-" \/ IsDigit(c) -> ParseNumber(s, i)
              [] OTHER -> JFail("Expecting value")

\* json.loads(s): the value, or the JSONDecodeError's message
JsonLoads(s) ==
    LET x == ParseValue(s, LStripFrom(s, 1))
    IN IF ~x.ok THEN x
       ELSE IF LStripFrom(s, x.next) <= Len(s) THEN JFail("Extra data")
       ELSE x

-----------------------------------------------------------------------------
(* Python's operations on the values request.get_json() returns.           *)

\* bool(v): `not v` is ~Truthy(v)
Truthy(x) ==
    CASE x.t = "null" -> FALSE
      [] x.t = "bool" -> x.v
      [] x.t = "int" -> x.v # 0
      [] x.t = "str" -> x.v # ""
      [] x.t = "arr" -> Len(x.v) > 0
      [] x.t = "obj" -> DOMAIN x.v # {}

\* `key in x` is defined for a dict, a list and a str; a TypeError otherwise
SupportsIn(x) == x.t \in {"obj", "arr", "str"}

\* key in x
In(key, x) ==
    CASE x.t = "obj" -> key \in DOMAIN x.v
      [] x.t = "arr" -> \E i \in 1..Len(x.v) : x.v[i] = JStr(key)
      [] x.t = "str" -> Contains(x.v, key)

\* len(x) is defined for a list, a str and a dict; a TypeError otherwise
HasLen(x) == x.t \in {"arr", "str", "obj"}

\* len(x)
PyLen(x) ==
    CASE x.t = "arr" -> Len(x.v)
      [] x.t = "str" -> Len(x.v)
      [] x.t = "obj" -> Cardinality(DOMAIN x.v)

\* `for atom in x` is defined for a list, a str and a dict; a TypeError otherwise
Iterable(x) == x.t \in {"arr", "str", "obj"}

\* the keys of a dict, as a list
RECURSIVE KeyList(_)
KeyList(S) ==
    IF S = {} THEN <<>>
    ELSE LET k == CHOOSE x \in S : TRUE IN <<JStr(k)>> \o KeyList(S \ {k})

\* the items `for atom in x` yields: the elements of a list, the characters of
\* a str, the keys of a dict
Items(x) ==
    CASE x.t = "arr" -> x.v
      [] x.t = "str" -> [i \in 1..Len(x.v) |-> JStr(Ch(x.v, i))]
      [] x.t = "obj" -> KeyList(DOMAIN x.v)

\* atom.get('element', 'X'): only a dict has .get
DictGet(atom, key, default) ==
    IF key \in DOMAIN atom.v THEN atom.v[key] ELSE default

-----------------------------------------------------------------------------
(* The formula builders of app.py.                                         *)

\* Counter(atom_symbols): the count of each distinct symbol
Counter(atom_symbols) ==
    [e \in {atom_symbols[i] : i \in 1..Len(atom_symbols)} |->
        Cardinality({i \in 1..Len(atom_symbols) : atom_symbols[i] = e})]

\* sorted(keys): ascending by StrLess
RECURSIVE Sorted(_)
Sorted(S) ==
    IF S = {} THEN <<>>
    ELSE LET m == CHOOSE x \in S : \A y \in S : ~StrLess(y, x)
         IN <<m>> \o Sorted(S \ {m})

\* f"{element}{count if count > 1 else ''}"
FormatCount(element, count) ==
    element \o (IF count > 1 THEN ToString(count) ELSE "")

RECURSIVE FormatAll(_, _)
FormatAll(elements, atom_counts) ==
    IF elements = <<>> THEN ""
    ELSE FormatCount(Head(elements), atom_counts[Head(elements)])
            \o FormatAll(Tail(elements), atom_counts)

\* the elements the loop over sorted(atom_counts.keys()) formats, after the pops
SortedRest(atom_counts) == Sorted(DOMAIN atom_counts \ {"C", "H"})

\* handle_predict_bonds: the formula of lines 198-209
PredictBondsFormula(atom_symbols) ==
    LET atom_counts == Counter(atom_symbols)
        c == IF "C" \in DOMAIN atom_counts
             THEN FormatCount("C", atom_counts["C"]) ELSE ""
        h == IF "H" \in DOMAIN atom_counts
             THEN FormatCount("H", atom_counts["H"]) ELSE ""
    IN c \o h \o FormatAll(SortedRest(atom_counts), atom_counts)

\* get_molecule_info's formula with C and H left in the sorted loop
MoleculeInfoFormulaAlphabetical(atom_symbols) ==
    LET atom_counts == Counter(atom_symbols)
    IN FormatAll(Sorted(DOMAIN atom_counts), atom_counts)

\* get_molecule_info: the formula of lines 259-269
MoleculeInfoFormula(atom_symbols) ==
    LET atom_counts == Counter(atom_symbols)
        c == IF "C" \in DOMAIN atom_counts
             THEN FormatCount("C", atom_counts["C"]) ELSE ""
        h == IF "H" \in DOMAIN atom_counts
             THEN FormatCount("H", atom_counts["H"]) ELSE ""
    IN c \o h \o FormatAll(SortedRest(atom_counts), atom_counts)

\* [atom.get('element', 'X') for atom in atom_list], every atom being a dict
AtomSymbols(atoms) ==
    [i \in 1..Len(atoms) |-> DictGet(atoms[i], "element", JStr("X")).v]

-----------------------------------------------------------------------------
(* Requests, responses and what a handler does before its try block.       *)

Reqs == {"r1", "r2"}

PredictBondsRoute == "/api/predict_bonds"
FunFactRoute == "/api/get_fun_fact"
MoleculeInfoRoute == "/api/get_molecule_info"
AnalyzeRoute == "/api/analyze_structure"
FrontendRoute == "/"

PostRoutes == {PredictBondsRoute, FunFactRoute, MoleculeInfoRoute, AnalyzeRoute}

\* the routes each revision registers
RoutesOf(revision) ==
    IF revision = "Main_python" THEN {PredictBondsRoute}
    ELSE PostRoutes \cup {FrontendRoute}

NoQuery == [head |-> "", arg |-> JNull, tail |-> ""]
NoReply == [kind |-> "none", s |-> ""]
NoResp == [status |-> 0, ctype |-> "none", body |-> JNull]

\* jsonify(value), status
Jsonify(value, status) == [status |-> status, ctype |-> "json", body |-> value]

\* jsonify({"error": message}), status
JsonError(message, status) == Jsonify(JObj([error |-> JStr(message)]), status)

\* what Flask answers when an exception leaves the view function
FlaskUnhandled(exc) == [status |-> 500, ctype |-> "html", body |-> JStr(exc)]

Respond(r) == [kind |-> "respond", resp |-> r, query |-> NoQuery]
CallModel(q) == [kind |-> "call", resp |-> NoResp, query |-> q]
Raise(exc) == [kind |-> "raise", resp |-> FlaskUnhandled(exc), query |-> NoQuery]

MissingKey == JsonError("Server is missing GEMINI_API_KEY", 500)

\* Main_python.py handle_predict_bonds, up to the try block
MainPredictBonds(d) ==
    IF ~Truthy(API_KEY) THEN Respond(MissingKey)
    ELSE IF ~Truthy(d) THEN Respond(JsonError("Invalid request: 'atoms' list missing", 400))
    ELSE IF ~SupportsIn(d) THEN Raise("TypeError")
    ELSE IF ~In("atoms", d) THEN Respond(JsonError("Invalid request: 'atoms' list missing", 400))
    ELSE IF d.t # "obj" THEN Raise("TypeError")
    ELSE LET atom_list == d.v["atoms"]
         IN IF ~HasLen(atom_list) THEN Raise("TypeError")
            ELSE IF PyLen(atom_list) < 2
            THEN Respond(JsonError("At least 2 atoms are required", 400))
            ELSE CallModel([head |-> "Atoms: ", arg |-> atom_list, tail |-> ""])

\* handle_predict_bonds rejecting only an empty list
PredictBondsAtLeastOne(d) ==
    IF ~Truthy(API_KEY) THEN Respond(MissingKey)
    ELSE IF ~Truthy(d) THEN Respond(JsonError("Invalid request: 'atoms' list missing", 400))
    ELSE IF ~SupportsIn(d) THEN Raise("TypeError")
    ELSE IF ~In("atoms", d) THEN Respond(JsonError("Invalid request: 'atoms' list missing", 400))
    ELSE IF d.t # "obj" THEN Raise("TypeError")
    ELSE LET atom_list == d.v["atoms"]
         IN IF ~HasLen(atom_list) THEN Raise("TypeError")
            ELSE IF PyLen(atom_list) < 1
            THEN Respond(JsonError("At least 2 atoms are required", 400))
            ELSE IF \E i \in 1..Len(Items(atom_list)) : Items(atom_list)[i].t # "obj"
            THEN Raise("AttributeError")
            ELSE CallModel(
                    [head |-> "Predict all bonds for the molecule "
                                \o PredictBondsFormula(AtomSymbols(Items(atom_list)))
                                \o ", based on this 0-indexed atom list with grid coordinates: ",
                     arg |-> atom_list, tail |-> ""])

\* app.py handle_predict_bonds, up to the try block
PredictBonds(d) ==
    IF ~Truthy(API_KEY) THEN Respond(MissingKey)
    ELSE IF ~Truthy(d) THEN Respond(JsonError("Invalid request: 'atoms' list missing", 400))
    ELSE IF ~SupportsIn(d) THEN Raise("TypeError")
    ELSE IF ~In("atoms", d) THEN Respond(JsonError("Invalid request: 'atoms' list missing", 400))
    ELSE IF d.t # "obj" THEN Raise("TypeError")
    ELSE LET atom_list == d.v["atoms"]
         IN IF ~HasLen(atom_list) THEN Raise("TypeError")
            ELSE IF PyLen(atom_list) < 2
            THEN Respond(JsonError("At least 2 atoms are required", 400))
            ELSE IF \E i \in 1..Len(Items(atom_list)) : Items(atom_list)[i].t # "obj"
            THEN Raise("AttributeError")
            ELSE CallModel(
                    [head |-> "Predict all bonds for the molecule "
                                \o PredictBondsFormula(AtomSymbols(Items(atom_list)))
                                \o ", based on this 0-indexed atom list with grid coordinates: ",
                     arg |-> atom_list, tail |-> ""])

\* app.py get_fun_fact, up to the try block
GetFunFact(d) ==
    IF ~Truthy(API_KEY) THEN Respond(MissingKey)
    ELSE IF ~Truthy(d) THEN Respond(JsonError("Invalid request: 'element' missing", 400))
    ELSE IF ~SupportsIn(d) THEN Raise("TypeError")
    ELSE IF ~In("element", d) THEN Respond(JsonError("Invalid request: 'element' missing", 400))
    ELSE IF d.t # "obj" THEN Raise("TypeError")
    ELSE CallModel(
            [head |-> "Tell me a single, one-sentence fun fact about the element ",
             arg |-> d.v["element"],
             tail |-> ". Respond with only the fact, nothing else."])

\* get_molecule_info reading the body before it looks at the key
GetMoleculeInfoKeyCheckLate(d) ==
    IF ~Truthy(d) THEN Respond(JsonError("Invalid request: 'atoms' list missing", 400))
    ELSE IF ~SupportsIn(d) THEN Raise("TypeError")
    ELSE IF ~In("atoms", d) THEN Respond(JsonError("Invalid request: 'atoms' list missing", 400))
    ELSE IF ~Truthy(API_KEY) THEN Respond(MissingKey)
    ELSE IF d.t # "obj" THEN Raise("TypeError")
    ELSE LET atom_list == d.v["atoms"]
         IN IF ~Iterable(atom_list) THEN Raise("TypeError")
            ELSE IF \E i \in 1..Len(Items(atom_list)) : Items(atom_list)[i].t # "obj"
            THEN Raise("AttributeError")
            ELSE CallModel(
                    [head |-> "Analyze the molecule "
                                \o MoleculeInfoFormula(AtomSymbols(Items(atom_list)))
                                \o ", based on this 0-indexed atom list: ",
                     arg |-> atom_list, tail |-> ""])

\* app.py get_molecule_info, up to the try block
GetMoleculeInfo(d) ==
    IF ~Truthy(API_KEY) THEN Respond(MissingKey)
    ELSE IF ~Truthy(d) THEN Respond(JsonError("Invalid request: 'atoms' list missing", 400))
    ELSE IF ~SupportsIn(d) THEN Raise("TypeError")
    ELSE IF ~In("atoms", d) THEN Respond(JsonError("Invalid request: 'atoms' list missing", 400))
    ELSE IF d.t # "obj" THEN Raise("TypeError")
    ELSE LET atom_list == d.v["atoms"]
         IN IF ~Iterable(atom_list) THEN Raise("TypeError")
            ELSE IF \E i \in 1..Len(Items(atom_list)) : Items(atom_list)[i].t # "obj"
            THEN Raise("AttributeError")
            ELSE CallModel(
                    [head |-> "Analyze the molecule "
                                \o MoleculeInfoFormula(AtomSymbols(Items(atom_list)))
                                \o ", based on this 0-indexed atom list: ",
                     arg |-> atom_list, tail |-> ""])

\* analyze_structure checking for 'atoms' only
AnalyzeStructureNoBondsCheck(d) ==
    IF ~Truthy(API_KEY) THEN Respond(MissingKey)
    ELSE IF ~Truthy(d)
    THEN Respond(JsonError("Invalid request: 'atoms' and 'bonds' lists missing", 400))
    ELSE IF ~SupportsIn(d) THEN Raise("TypeError")
    ELSE IF ~In("atoms", d)
    THEN Respond(JsonError("Invalid request: 'atoms' and 'bonds' lists missing", 400))
    ELSE IF d.t # "obj" THEN Raise("TypeError")
    ELSE LET atom_list == d.v["atoms"]
         IN IF ~Truthy(atom_list) THEN Respond(JsonError("No atoms to analyze", 400))
            ELSE CallModel([head |-> "Analyze this molecule structure: ",
                            arg |-> d, tail |-> ""])

\* analyze_structure without the empty-'atoms' check
AnalyzeStructureNoEmptyCheck(d) ==
    IF ~Truthy(API_KEY) THEN Respond(MissingKey)
    ELSE IF ~Truthy(d)
    THEN Respond(JsonError("Invalid request: 'atoms' and 'bonds' lists missing", 400))
    ELSE IF ~SupportsIn(d) THEN Raise("TypeError")
    ELSE IF ~In("atoms", d) \/ ~In("bonds", d)
    THEN Respond(JsonError("Invalid request: 'atoms' and 'bonds' lists missing", 400))
    ELSE IF d.t # "obj" THEN Raise("TypeError")
    ELSE CallModel([head |-> "Analyze this molecule structure: ", arg |-> d, tail |-> ""])

\* app.py analyze_structure, up to the try block
AnalyzeStructure(d) ==
    IF ~Truthy(API_KEY) THEN Respond(MissingKey)
    ELSE IF ~Truthy(d)
    THEN Respond(JsonError("Invalid request: 'atoms' and 'bonds' lists missing", 400))
    ELSE IF ~SupportsIn(d) THEN Raise("TypeError")
    ELSE IF ~In("atoms", d) \/ ~In("bonds", d)
    THEN Respond(JsonError("Invalid request: 'atoms' and 'bonds' lists missing", 400))
    ELSE IF d.t # "obj" THEN Raise("TypeError")
    ELSE LET atom_list == d.v["atoms"]
         IN IF ~Truthy(atom_list) THEN Respond(JsonError("No atoms to analyze", 400))
            ELSE CallModel([head |-> "Analyze this molecule structure: ",
                            arg |-> d, tail |-> ""])

-----------------------------------------------------------------------------
(* The try blocks: the hosted model's reply and what the handler returns.  *)

\* str(e) of the exception the try block catches, "" when it catches none:
\* the model call's own error, the IndexError of candidates[0], json.loads'
ReadError(rep, parse) ==
    CASE rep.kind = "raise" -> rep.s
      [] rep.kind = "nocandidates" -> "list index out of range"
      [] rep.kind = "text" -> IF parse /\ ~JsonLoads(rep.s).ok THEN JsonLoads(rep.s).msg ELSE ""

Failed(rep, parse) ==
    rep.kind # "text" \/ (parse /\ ~JsonLoads(rep.s).ok)

\* Main_python.py handle_predict_bonds, lines 94-114
MainPredictBondsTry(rep) ==
    IF Failed(rep, TRUE)
    THEN JsonError("AI prediction failed: " \o ReadError(rep, TRUE), 500)
    ELSE Jsonify(JsonLoads(rep.s).val, 200)

\* handle_predict_bonds refusing an answer without a 'bonds' list
PredictBondsTryValidated(rep) ==
    IF Failed(rep, TRUE)
    THEN JsonError("AI prediction failed: " \o ReadError(rep, TRUE), 500)
    ELSE IF JsonLoads(rep.s).val.t # "obj" \/ "bonds" \notin DOMAIN JsonLoads(rep.s).val.v
    THEN JsonError("AI prediction failed: 'bonds'", 500)
    ELSE Jsonify(JsonLoads(rep.s).val, 200)

\* app.py handle_predict_bonds, lines 213-222
PredictBondsTry(rep) ==
    IF Failed(rep, TRUE)
    THEN JsonError("AI prediction failed: " \o ReadError(rep, TRUE), 500)
    ELSE Jsonify(JsonLoads(rep.s).val, 200)

\* app.py get_fun_fact, lines 234-240
FunFactTry(rep) ==
    IF Failed(rep, FALSE)
    THEN JsonError("AI fact generation failed: " \o ReadError(rep, FALSE), 500)
    ELSE Jsonify(JObj([fact |-> JStr(Strip(rep.s))]), 200)

\* app.py get_molecule_info, lines 274-282
MoleculeInfoTry(rep) ==
    IF Failed(rep, TRUE)
    THEN JsonError("AI info generation failed: " \o ReadError(rep, TRUE), 500)
    ELSE Jsonify(JsonLoads(rep.s).val, 200)

\* analyze_structure answering a failure with a fixed message
AnalyzeTryFixedMessage(rep) ==
    IF Failed(rep, TRUE)
    THEN JsonError("AI analysis failed", 500)
    ELSE Jsonify(JsonLoads(rep.s).val, 200)

\* app.py analyze_structure, lines 300-310
AnalyzeTry(rep) ==
    IF Failed(rep, TRUE)
    THEN JsonError("AI analysis failed: " \o ReadError(rep, TRUE), 500)
    ELSE Jsonify(JsonLoads(rep.s).val, 200)

\* the try block of the handler that serves request r
TryResult(r, rep) ==
    CASE rev = "Main_python" -> MainPredictBondsTry(rep)
      [] rev = "app" /\ route[r] = PredictBondsRoute -> PredictBondsTry(rep)
      [] rev = "app" /\ route[r] = FunFactRoute -> FunFactTry(rep)
      [] rev = "app" /\ route[r] = MoleculeInfoRoute -> MoleculeInfoTry(rep)
      [] rev = "app" /\ route[r] = AnalyzeRoute -> AnalyzeTry(rep)

-----------------------------------------------------------------------------
(* The inputs: API keys, request bodies, the hosted model's replies.       *)

\* os.getenv("GEMINI_API_KEY"): None, or the variable's value
KeyValues == {JNull, JStr(""), JStr("AIzaSyExampleKey")}

Revisions == {"Main_python", "app"}

AtomObj(e) == JObj([element |-> JStr(e), row |-> JInt(0), col |-> JInt(0)])

\* an atom object that carries no 'element'
AtomNoElement == JObj([row |-> JInt(0), col |-> JInt(0)])

\* atom objects, and the bare element string of the first revision
AtomChoices == {AtomObj("C"), AtomObj("H"), AtomNoElement, JStr("C")}

SeqsUpTo(S, n) == UNION {[1..k -> S] : k \in 0..n}

AtomsValues == {JArr(q) : q \in SeqsUpTo(AtomChoices, MaxAtoms)} \cup {JInt(5), JNull}

BondObj(from, to) == JObj([from |-> JInt(from), to |-> JInt(to), type |-> JStr("SINGLE")])

BondsValues == {JArr(<<>>), JArr(<<BondObj(0, 1)>>)}

ElementValues == {JStr("He")}

FieldValues(k) ==
    CASE k = "atoms" -> AtomsValues
      [] k = "bonds" -> BondsValues
      [] k = "element" -> ElementValues

\* request.get_json(): null, a number, or an object with some of the fields
Bodies ==
    {JNull, JInt(5)} \cup
    UNION {{JObj(f) : f \in {g \in [K -> UNION {FieldValues(k) : k \in K}] :
                                \A k \in K : g[k] \in FieldValues(k)}} :
           K \in SUBSET {"atoms", "bonds", "element"}}

\* the bodies of the concurrent specification
ConcBodies ==
    {JObj(<<>>),
     JObj([atoms |-> JArr(<<AtomObj("C"), AtomObj("H")>>)]),
     JObj([atoms |-> JArr(<<AtomObj("C"), AtomObj("H")>>), bonds |-> JArr(<<BondObj(0, 1)>>)]),
     JObj([element |-> JStr("He")])}

BondsText == "{\"bonds\": [{\"from\": 0, \"to\": 1, \"type\": \"SINGLE\"}]}"
OutOfRangeText == "{\"bonds\": [{\"from\": 0, \"to\": 7, \"type\": \"SINGLE\"}]}"
NoBondsKeyText == "{}"
InfoText == " {\"chemical_formula\": \"CH4\", \"common_name\": \"Methane\", \"molar_mass_g_mol\": 16}\n"
FactText == "Helium is light."
PaddedFactText == " Helium is light.\n"
TruncatedText == "{\"bonds\": ["

\* response.candidates[0].content.parts[0].text
Texts == {BondsText, OutOfRangeText, NoBondsKeyText, InfoText, FactText,
          PaddedFactText, TruncatedText, ""}

ConcTexts == {BondsText, PaddedFactText}

\* str(e) of what generate_content raises
ErrMsgs == {"503 Service Unavailable", "400 API key not valid"}

ConcErrMsgs == {"503 Service Unavailable"}

-----------------------------------------------------------------------------
(* The state machine.                                                      *)

Idle ==
    /\ pc = [r \in Reqs |-> "idle"]
    /\ route = [r \in Reqs |-> "none"]
    /\ data = [r \in Reqs |-> JNull]
    /\ calls = [r \in Reqs |-> 0]
    /\ query = [r \in Reqs |-> NoQuery]
    /\ reply = [r \in Reqs |-> NoReply]
    /\ resp = [r \in Reqs |-> NoResp]

NotBuilt == [built |-> FALSE, s |-> ""]
Built(f) == [built |-> TRUE, s |-> f]

\* module load: the key is read once; no request has arrived
Init ==
    /\ API_KEY \in KeyValues
    /\ rev \in Revisions
    /\ Idle
    /\ fatoms = <<>>
    /\ fbonds_formula = NotBuilt
    /\ finfo_formula = NotBuilt

\* a client sends a request to a route the revision registers
Receive(r, B) ==
    /\ pc[r] = "idle"
    /\ \E rt \in RoutesOf(rev) :
        \E d \in (IF rt = FrontendRoute THEN {JNull} ELSE B) :
            /\ route' = [route EXCEPT ![r] = rt]
            /\ data' = [data EXCEPT ![r] = d]
    /\ pc' = [pc EXCEPT ![r] = "received"]
    /\ UNCHANGED <<API_KEY, rev, calls, query, reply, resp, fvars>>

\* the response has been sent; the worker is free for the next request
Release(r) ==
    /\ pc[r] = "done"
    /\ pc' = [pc EXCEPT ![r] = "idle"]
    /\ route' = [route EXCEPT ![r] = "none"]
    /\ data' = [data EXCEPT ![r] = JNull]
    /\ calls' = [calls EXCEPT ![r] = 0]
    /\ query' = [query EXCEPT ![r] = NoQuery]
    /\ reply' = [reply EXCEPT ![r] = NoReply]
    /\ resp' = [resp EXCEPT ![r] = NoResp]
    /\ UNCHANGED <<API_KEY, rev, fvars>>

\* the handler runs up to its return, the exception that leaves it, or the
\* blocking generate_content call
Dispatch(r, out) ==
    /\ pc[r] = "received"
    /\ pc' = [pc EXCEPT ![r] = IF out.kind = "call" THEN "calling" ELSE "done"]
    /\ calls' = [calls EXCEPT ![r] = IF out.kind = "call" THEN @ + 1 ELSE @]
    /\ query' = [query EXCEPT ![r] = out.query]
    /\ resp' = [resp EXCEPT ![r] = out.resp]
    /\ UNCHANGED <<API_KEY, rev, route, data, reply, fvars>>

HandlePredictBondsMain(r) ==
    /\ rev = "Main_python"
    /\ route[r] = PredictBondsRoute
    /\ Dispatch(r, MainPredictBonds(data[r]))

HandlePredictBonds(r) ==
    /\ rev = "app"
    /\ route[r] = PredictBondsRoute
    /\ Dispatch(r, PredictBonds(data[r]))

HandleGetFunFact(r) ==
    /\ rev = "app"
    /\ route[r] = FunFactRoute
    /\ Dispatch(r, GetFunFact(data[r]))

HandleGetMoleculeInfo(r) ==
    /\ rev = "app"
    /\ route[r] = MoleculeInfoRoute
    /\ Dispatch(r, GetMoleculeInfo(data[r]))

HandleAnalyzeStructure(r) ==
    /\ rev = "app"
    /\ route[r] = AnalyzeRoute
    /\ Dispatch(r, AnalyzeStructure(data[r]))

\* app.static_folder is 'static', never None
FrontendResponse ==
    [status |-> 200, ctype |-> "file", body |-> JStr("User_Interface.html")]

ServeFrontend(r) ==
    /\ rev = "app"
    /\ route[r] = FrontendRoute
    /\ pc[r] = "received"
    /\ pc' = [pc EXCEPT ![r] = "done"]
    /\ resp' = [resp EXCEPT ![r] = FrontendResponse]
    /\ UNCHANGED <<API_KEY, rev, route, data, calls, query, reply, fvars>>

\* generate_content returns or raises; the rest of the try block runs
Finish(r, rep) ==
    /\ pc[r] = "calling"
    /\ reply' = [reply EXCEPT ![r] = rep]
    /\ resp' = [resp EXCEPT ![r] = TryResult(r, rep)]
    /\ pc' = [pc EXCEPT ![r] = "done"]
    /\ UNCHANGED <<API_KEY, rev, route, data, calls, query, fvars>>

ModelReturns(r, T) ==
    \E rep \in {[kind |-> "text", s |-> t] : t \in T} \cup {[kind |-> "nocandidates", s |-> ""]} :
        Finish(r, rep)

\* a handler that forgets the key once the model has raised
ModelRaisesDropsKey(r, M) ==
    \E m \in M :
        /\ pc[r] = "calling"
        /\ reply' = [reply EXCEPT ![r] = [kind |-> "raise", s |-> m]]
        /\ resp' = [resp EXCEPT ![r] = TryResult(r, [kind |-> "raise", s |-> m])]
        /\ pc' = [pc EXCEPT ![r] = "done"]
        /\ API_KEY' = JNull
        /\ UNCHANGED <<rev, route, data, calls, query, fvars>>

ModelRaises(r, M) ==
    \E m \in M : Finish(r, [kind |-> "raise", s |-> m])

Step(r, B, T, M) ==
    \/ Receive(r, B)
    \/ HandlePredictBondsMain(r)
    \/ HandlePredictBonds(r)
    \/ HandleGetFunFact(r)
    \/ HandleGetMoleculeInfo(r)
    \/ HandleAnalyzeStructure(r)
    \/ ServeFrontend(r)
    \/ ModelReturns(r, T)
    \/ ModelRaises(r, M)
    \/ Release(r)

\* one request at a time, every body and reply
Next == Step("r1", Bodies, Texts, ErrMsgs)

Spec == Init /\ [][Next]_vars

\* two clients whose requests overlap
NextConc == \E r \in Reqs : Step(r, ConcBodies, ConcTexts, ConcErrMsgs)

SpecConc == Init /\ [][NextConc]_vars

-----------------------------------------------------------------------------
(* The formula builders on their own: every atom list up to the bound.     *)

Symbols == {"C", "H", "O", "Na", "Cl"}

FormulaAtoms == {AtomObj(e) : e \in Symbols} \cup {AtomNoElement}

InitFormula ==
    /\ API_KEY = JStr("AIzaSyExampleKey")
    /\ rev = "app"
    /\ Idle
    /\ fatoms \in SeqsUpTo(FormulaAtoms, MaxFormulaAtoms)
    /\ fbonds_formula = NotBuilt
    /\ finfo_formula = NotBuilt

\* handle_predict_bonds builds its formula past the length check of line 191
BuildBondsFormula ==
    /\ ~fbonds_formula.built
    /\ Len(fatoms) >= 2
    /\ fbonds_formula' = Built(PredictBondsFormula(AtomSymbols(fatoms)))
    /\ UNCHANGED <<API_KEY, rev, reqvars, fatoms, finfo_formula>>

\* get_molecule_info builds its formula for any list
BuildInfoFormula ==
    /\ ~finfo_formula.built
    /\ finfo_formula' = Built(MoleculeInfoFormula(AtomSymbols(fatoms)))
    /\ UNCHANGED <<API_KEY, rev, reqvars, fatoms, fbonds_formula>>

NextFormula == BuildBondsFormula \/ BuildInfoFormula

SpecFormula == InitFormula /\ [][NextFormula]_vars

-----------------------------------------------------------------------------
(* Vocabulary of the properties.                                           *)

Done(r) == pc[r] = "done"

Started(r) == pc[r] \in {"calling", "done"}

IsPost(r) == route[r] \in PostRoutes

KeySet == Truthy(API_KEY)

RequiredFields(rt) ==
    CASE rt = PredictBondsRoute -> {"atoms"}
      [] rt = FunFactRoute -> {"element"}
      [] rt = MoleculeInfoRoute -> {"atoms"}
      [] rt = AnalyzeRoute -> {"atoms", "bonds"}

\* a JSON body that is empty (no body, {}) or an object without a required field
LacksRequired(rt, d) ==
    \/ d.t = "null"
    \/ d.t = "obj" /\ (DOMAIN d.v = {} \/ \E k \in RequiredFields(rt) : k \notin DOMAIN d.v)

HasField(d, k) == d.t = "obj" /\ k \in DOMAIN d.v

\* the body carries 'atoms' as a list
HasAtomsList(d) == HasField(d, "atoms") /\ d.v["atoms"].t = "arr"

IsJsonError(rsp, status) ==
    /\ rsp.status = status
    /\ rsp.ctype = "json"
    /\ rsp.body.t = "obj"
    /\ DOMAIN rsp.body.v = {"error"}
    /\ rsp.body.v["error"].t = "str"

ErrorText(rsp) == rsp.body.v["error"].v

MissingKeyResponse ==
    [status |-> 500, ctype |-> "json",
     body |-> [t |-> "obj", v |-> [error |-> [t |-> "str", v |-> "Server is missing GEMINI_API_KEY"]]]]

-----------------------------------------------------------------------------
(* C1 *)

\* C1 as stated: a POST request whose JSON body is empty or lacks the
\* endpoint's required field is answered 400 with a JSON error and the hosted
\* model is not called.
C1_MissingFieldAlways400 ==
    \A r \in Reqs :
        (Started(r) /\ IsPost(r) /\ LacksRequired(route[r], data[r]))
            => (calls[r] = 0 /\ (Done(r) => IsJsonError(resp[r], 400)))

\* C1 (amended): with the API key set, a POST request whose JSON body is empty
\* or lacks the endpoint's required field is answered 400 with a JSON error
\* and the hosted model is not called.
C1_MissingField400WithKey ==
    \A r \in Reqs :
        (KeySet /\ Started(r) /\ IsPost(r) /\ LacksRequired(route[r], data[r]))
            => (calls[r] = 0 /\ (Done(r) => IsJsonError(resp[r], 400)))

C1_Witness ==
    /\ KeySet
    /\ Done("r1")
    /\ route["r1"] = AnalyzeRoute
    /\ HasField(data["r1"], "atoms")
    /\ ~HasField(data["r1"], "bonds")
    /\ IsJsonError(resp["r1"], 400)

-----------------------------------------------------------------------------
(* C2 *)

\* C2: with the API key unset, every POST request is answered with the fixed
\* 500 body whatever its body is and the model is never called, and GET /
\* still serves the frontend file.
C2_MissingKeyAlways500 ==
    ~KeySet =>
        \A r \in Reqs :
            /\ pc[r] # "calling"
            /\ calls[r] = 0
            /\ (Done(r) /\ IsPost(r)) => resp[r] = MissingKeyResponse
            /\ (Done(r) /\ route[r] = FrontendRoute) =>
                    (resp[r].status = 200 /\ resp[r].ctype = "file"
                        /\ resp[r].body = JStr("User_Interface.html"))

C2_Witness ==
    /\ ~KeySet
    /\ Done("r1")
    /\ route["r1"] = MoleculeInfoRoute
    /\ HasAtomsList(data["r1"])
    /\ Len(data["r1"].v["atoms"].v) = 2
    /\ resp["r1"] = MissingKeyResponse

-----------------------------------------------------------------------------
(* C3 *)

\* C3: with the API key set, in both revisions, a predict_bonds request whose
\* 'atoms' list has fewer than 2 entries is answered 400 without a model
\* call, and one with 2 or more entries is never answered 400.
C3_AtLeastTwoAtoms ==
    \A r \in Reqs :
        (KeySet /\ Started(r) /\ route[r] = PredictBondsRoute /\ HasAtomsList(data[r]))
            => IF Len(data[r].v["atoms"].v) < 2
               THEN calls[r] = 0 /\ (Done(r) => IsJsonError(resp[r], 400))
               ELSE resp[r].status # 400

C3_Witness ==
    /\ KeySet
    /\ rev = "Main_python"
    /\ Done("r1")
    /\ HasAtomsList(data["r1"])
    /\ Len(data["r1"].v["atoms"].v) = 1
    /\ IsJsonError(resp["r1"], 400)
    /\ calls["r1"] = 0

-----------------------------------------------------------------------------
(* C4 *)

Uppers == "ABCDEFGHIJKLMNOPQRSTUVWXYZ"
Lowers == "abcdefghijklmnopqrstuvwxyz"

\* the place of each letter in the alphabet, capital or small
LetterTable ==
    [c \in {Ch(Uppers, k) : k \in 1..26} \cup {Ch(Lowers, k) : k \in 1..26} |->
        CHOOSE k \in 1..26 : Ch(Uppers, k) = c \/ Ch(Lowers, k) = c]

LetterRank(c) == LetterTable[c]

RECURSIVE AlphaLessFrom(_, _, _)
AlphaLessFrom(a, b, i) ==
    IF i > Len(b) THEN FALSE
    ELSE IF i > Len(a) THEN TRUE
    ELSE IF LetterRank(Ch(a, i)) < LetterRank(Ch(b, i)) THEN TRUE
    ELSE IF LetterRank(Ch(a, i)) > LetterRank(Ch(b, i)) THEN FALSE
    ELSE AlphaLessFrom(a, b, i + 1)

\* a comes before b in alphabetical (dictionary) order
AlphaLess(a, b) == AlphaLessFrom(a, b, 1)

\* the symbol an atom object counts as
SymbolOf(atom) == IF "element" \in DOMAIN atom.v THEN atom.v["element"].v ELSE "X"

Occurrences(atoms, e) == Cardinality({i \in 1..Len(atoms) : SymbolOf(atoms[i]) = e})

\* carbon, then hydrogen, then the other distinct symbols, each at the place
\* its number of alphabetical predecessors gives it
HillOrder(atoms) ==
    LET D == {SymbolOf(atoms[i]) : i \in 1..Len(atoms)}
        rest == D \ {"C", "H"}
    IN (IF "C" \in D THEN <<"C">> ELSE <<>>)
        \o (IF "H" \in D THEN <<"H">> ELSE <<>>)
        \o [i \in 1..Cardinality(rest) |->
                CHOOSE e \in rest : Cardinality({y \in rest : AlphaLess(y, e)}) = i - 1]

RECURSIVE HillText(_, _)
HillText(order, atoms) ==
    IF order = <<>> THEN ""
    ELSE Head(order)
            \o (IF Occurrences(atoms, Head(order)) = 1 THEN ""
                ELSE ToString(Occurrences(atoms, Head(order))))
            \o HillText(Tail(order), atoms)

\* C4: for every atom list the formula of predict_bonds and that of
\* get_molecule_info are the same string: carbon, hydrogen, then the other
\* symbols in alphabetical order, each once with its count (omitted when 1),
\* a missing 'element' counting as X; CH4, O3 and ClNa are the examples.
C4_FormulaIsHillLike ==
    /\ fbonds_formula.built => fbonds_formula.s = HillText(HillOrder(fatoms), fatoms)
    /\ finfo_formula.built => finfo_formula.s = HillText(HillOrder(fatoms), fatoms)
    /\ (fbonds_formula.built /\ finfo_formula.built) => fbonds_formula.s = finfo_formula.s
    /\ (finfo_formula.built
            /\ fatoms = <<AtomObj("C"), AtomObj("H"), AtomObj("H"), AtomObj("H"), AtomObj("H")>>)
         => finfo_formula.s = "CH4"
    /\ (finfo_formula.built /\ fatoms = <<AtomObj("O"), AtomObj("O"), AtomObj("O")>>)
         => finfo_formula.s = "O3"
    /\ (finfo_formula.built /\ fatoms = <<AtomObj("Na"), AtomObj("Cl")>>)
         => finfo_formula.s = "ClNa"
    /\ (finfo_formula.built /\ fatoms = <<AtomNoElement, AtomObj("O"), AtomNoElement>>)
         => finfo_formula.s = "OX2"

C4_Witness ==
    /\ fatoms = <<AtomObj("Na"), AtomObj("H"), AtomNoElement, AtomObj("C"), AtomObj("Na")>>
    /\ fbonds_formula = Built("CHNa2X")
    /\ finfo_formula = Built("CHNa2X")

-----------------------------------------------------------------------------
(* C5 *)

\* texts json.loads rejects
NotJson == {FactText, PaddedFactText, TruncatedText, ""}

\* C5: when the model call raises, or its answer cannot be read or parsed, the
\* request is answered 500 with a JSON error string that contains the
\* exception's message.
C5_ModelFailureIs500 ==
    \A r \in Reqs :
        (Done(r) /\ IsPost(r)) =>
            /\ reply[r].kind = "raise" =>
                    (IsJsonError(resp[r], 500) /\ Contains(ErrorText(resp[r]), reply[r].s))
            /\ reply[r].kind = "nocandidates" =>
                    (IsJsonError(resp[r], 500)
                        /\ Contains(ErrorText(resp[r]), "list index out of range"))
            /\ (reply[r].kind = "text" /\ route[r] # FunFactRoute /\ reply[r].s \in NotJson) =>
                    (IsJsonError(resp[r], 500)
                        /\ Contains(ErrorText(resp[r]), JsonLoads(reply[r].s).msg))

C5_Witness ==
    /\ Done("r1")
    /\ route["r1"] = AnalyzeRoute
    /\ reply["r1"] = [kind |-> "raise", s |-> "503 Service Unavailable"]
    /\ IsJsonError(resp["r1"], 500)
    /\ ErrorText(resp["r1"]) = "AI analysis failed: 503 Service Unavailable"

-----------------------------------------------------------------------------
(* C6 *)

EmptyList == [t |-> "arr", v |-> <<>>]

\* C6 as stated: with the API key set, an analyze_structure request in which
\* 'atoms' or 'bonds' is missing or is an empty list is answered 400 and the
\* model is not called.
C6_MissingOrEmptyEither400 ==
    \A r \in Reqs :
        (KeySet /\ Started(r) /\ route[r] = AnalyzeRoute
            /\ (\/ LacksRequired(AnalyzeRoute, data[r])
                \/ HasField(data[r], "atoms") /\ data[r].v["atoms"] = EmptyList
                \/ HasField(data[r], "bonds") /\ data[r].v["bonds"] = EmptyList))
            => (calls[r] = 0 /\ (Done(r) => IsJsonError(resp[r], 400)))

\* C6 (amended): with the API key set, an analyze_structure request in which
\* 'atoms' or 'bonds' is missing, or 'atoms' is an empty list, is answered 400
\* and the model is not called; an empty 'bonds' list next to a non-empty
\* 'atoms' list is not rejected and the model is called.
C6_MissingOrEmptyAtoms400 ==
    \A r \in Reqs :
        (KeySet /\ Started(r) /\ route[r] = AnalyzeRoute) =>
            /\ (\/ LacksRequired(AnalyzeRoute, data[r])
                \/ HasField(data[r], "atoms") /\ data[r].v["atoms"] = EmptyList)
                => (calls[r] = 0 /\ (Done(r) => IsJsonError(resp[r], 400)))
            /\ (/\ HasAtomsList(data[r])
                /\ data[r].v["atoms"] # EmptyList
                /\ HasField(data[r], "bonds")
                /\ data[r].v["bonds"] = EmptyList)
                => (calls[r] = 1 /\ resp[r].status # 400)

C6_Witness ==
    /\ KeySet
    /\ Done("r1")
    /\ route["r1"] = AnalyzeRoute
    /\ HasField(data["r1"], "bonds")
    /\ HasField(data["r1"], "atoms")
    /\ data["r1"].v["atoms"] = EmptyList
    /\ IsJsonError(resp["r1"], 400)
    /\ ErrorText(resp["r1"]) = "No atoms to analyze"

-----------------------------------------------------------------------------
(* C7 *)

\* C7: every POST request ends in an outcome the handler itself produces:
\* 200 with the model's result, or 400 or 500 with a JSON error message; no
\* body makes an exception leave the handler.
C7_HandlerAnswersEveryBody ==
    \A r \in Reqs :
        (Done(r) /\ IsPost(r)) =>
            /\ resp[r].ctype = "json"
            /\ \/ resp[r].status = 200
               \/ IsJsonError(resp[r], 400)
               \/ IsJsonError(resp[r], 500)

-----------------------------------------------------------------------------
(* C8 *)

\* the body passes the handler's checks: the required fields are there, with
\* at least 2 atoms for predict_bonds and a non-empty 'atoms' for analyze
PassesValidation(rt, d) ==
    /\ d.t = "obj"
    /\ RequiredFields(rt) \subseteq DOMAIN d.v
    /\ rt = PredictBondsRoute => (HasLen(d.v["atoms"]) /\ PyLen(d.v["atoms"]) >= 2)
    /\ rt = AnalyzeRoute => Truthy(d.v["atoms"])

\* C8: the model is called at most once per POST request: exactly once when
\* the key is set and the body passes validation, never when the answer is
\* 400 or the missing-key 500; a call that raises is followed by a 500.
C8_ExactlyOneCall ==
    \A r \in Reqs :
        /\ calls[r] <= 1
        /\ (Done(r) /\ IsPost(r) /\ KeySet /\ PassesValidation(route[r], data[r]))
                => calls[r] = 1
        /\ (Done(r) /\ IsPost(r) /\ (resp[r].status = 400 \/ resp[r] = MissingKeyResponse))
                => calls[r] = 0
        /\ (Done(r) /\ reply[r].kind = "raise") => resp[r].status = 500

-----------------------------------------------------------------------------
(* C9 *)

\* the JSON value each well-formed answer denotes
ValueOf(text) ==
    CASE text = BondsText ->
            [t |-> "obj", v |-> [bonds |-> [t |-> "arr", v |-> <<BondObj(0, 1)>>]]]
      [] text = OutOfRangeText ->
            [t |-> "obj", v |-> [bonds |-> [t |-> "arr", v |-> <<BondObj(0, 7)>>]]]
      [] text = NoBondsKeyText -> [t |-> "obj", v |-> <<>>]
      [] text = InfoText ->
            [t |-> "obj", v |-> [chemical_formula |-> [t |-> "str", v |-> "CH4"],
                                 common_name |-> [t |-> "str", v |-> "Methane"],
                                 molar_mass_g_mol |-> [t |-> "int", v |-> 16]]]

IsJson == {BondsText, OutOfRangeText, NoBondsKeyText, InfoText}

\* the JSON endpoints forward the parsed answer unchanged with status 200
ForwardsParsedJson(r) ==
    (Done(r) /\ IsPost(r) /\ route[r] # FunFactRoute
        /\ reply[r].kind = "text" /\ reply[r].s \in IsJson)
        => resp[r] = [status |-> 200, ctype |-> "json", body |-> ValueOf(reply[r].s)]

\* fact is text without its leading and trailing whitespace
IsStripped(fact, text) ==
    \E i \in 1..(Len(text) + 1) : \E j \in 0..Len(text) :
        /\ fact = SubSeq(text, i, j)
        /\ \A k \in 1..(i - 1) : Ch(text, k) \in Whitespace
        /\ \A k \in (j + 1)..Len(text) : Ch(text, k) \in Whitespace
        /\ fact # "" => (Ch(text, i) \notin Whitespace /\ Ch(text, j) \notin Whitespace)

\* C9 as stated: on a successful model call the JSON endpoints answer 200
\* with exactly the parsed value, unvalidated, and get_fun_fact answers 200
\* with 'fact' exactly the model's text.
C9_OutputVerbatim ==
    \A r \in Reqs :
        /\ ForwardsParsedJson(r)
        /\ (Done(r) /\ route[r] = FunFactRoute /\ reply[r].kind = "text")
            => resp[r] = [status |-> 200, ctype |-> "json",
                          body |-> [t |-> "obj", v |-> [fact |-> [t |-> "str", v |-> reply[r].s]]]]

\* C9 (amended): on a successful model call the JSON endpoints answer 200
\* with exactly the parsed value, unvalidated, and get_fun_fact answers 200
\* with 'fact' the model's text without its leading and trailing whitespace.
C9_OutputVerbatimUpToStrip ==
    \A r \in Reqs :
        /\ ForwardsParsedJson(r)
        /\ (Done(r) /\ route[r] = FunFactRoute /\ reply[r].kind = "text")
            => /\ resp[r].status = 200
               /\ resp[r].ctype = "json"
               /\ resp[r].body.t = "obj"
               /\ DOMAIN resp[r].body.v = {"fact"}
               /\ resp[r].body.v["fact"].t = "str"
               /\ IsStripped(resp[r].body.v["fact"].v, reply[r].s)

\* a bond that points outside the two submitted atoms is forwarded
C9_Witness ==
    /\ rev = "app"
    /\ Done("r1")
    /\ route["r1"] = PredictBondsRoute
    /\ HasAtomsList(data["r1"])
    /\ Len(data["r1"].v["atoms"].v) = 2
    /\ reply["r1"] = [kind |-> "text", s |-> OutOfRangeText]
    /\ resp["r1"].status = 200
    /\ resp["r1"].body.v["bonds"].v[1].v["to"].v = 7

-----------------------------------------------------------------------------
(* C10 *)

ReqState(r) == <<pc[r], route[r], data[r], calls[r], query[r], reply[r], resp[r]>>

\* two finished requests with the same route, body and model answer have the
\* same response and the same number of model calls
Determined ==
    \A r1 \in Reqs : \A r2 \in Reqs :
        (Done(r1) /\ Done(r2) /\ route[r1] = route[r2] /\ data[r1] = data[r2]
            /\ reply[r1] = reply[r2])
            => (resp[r1] = resp[r2] /\ calls[r1] = calls[r2])

\* a step leaves the configuration alone and touches one request at most
StepIsLocal ==
    /\ API_KEY' = API_KEY
    /\ rev' = rev
    /\ \A r1 \in Reqs : \A r2 \in Reqs \ {r1} :
            ReqState(r1)' # ReqState(r1) => ReqState(r2)' = ReqState(r2)

\* C10: handlers leave the startup configuration unchanged and, under any
\* interleaving of requests, a response depends only on the request's own
\* route, body, the startup key and the model's answer to its own call.
C10_Stateless == []Determined /\ [][StepIsLocal]_vars

C10_Witness ==
    /\ Done("r1")
    /\ Done("r2")
    /\ route["r1"] = FunFactRoute
    /\ route["r2"] = FunFactRoute
    /\ data["r1"] = data["r2"]
    /\ reply["r1"].kind = "text"
    /\ reply["r1"] = reply["r2"]
    /\ resp["r1"] = resp["r2"]
    /\ resp["r1"].status = 200

=============================================================================
